---- MODULE Spec2Model ----
(***************************************************************************)
(* A model of tfmigrate's wildcard state move (StateXMvAction) and of its  *)
(* history-aware runner (HistoryRunner), after state_xmv_action.go.        *)
(*                                                                         *)
(* Strings are sequences of one-character strings; an error value is the   *)
(* sequence of the pieces of its message, and nil is the empty sequence.   *)
(***************************************************************************)
EXTENDS Integers, Sequences, FiniteSets, TLC

(***************************************************************************)
(* Bounds of the runner model.                                             *)
(***************************************************************************)
\* The number of migration files in the migration directory.
NumFiles == 3

\* The cap on the number of successful applies counted per file.
MaxApplied == 2

FileNames == <<"a.hcl", "b.hcl", "c.hcl", "d.hcl", "e.hcl">>

\* The migration directory: its files, in file-defined order.
Files == SubSeq(FileNames, 1, NumFiles)

FileSet == {Files[i] : i \in 1..Len(Files)}

(***************************************************************************)
(* Error values.                                                           *)
(***************************************************************************)
Nil == <<>>

\* Whether the message e contains the message x as a contiguous part.
Contains(e, x) ==
    \E i \in 0..(Len(e) - Len(x)) : SubSeq(e, i + 1, i + Len(x)) = x

\* fmt.Errorf("a migration has already been applied: %s", filename)
AlreadyAppliedError(f) == <<"a migration has already been applied: ", f>>

\* The error of NewFileRunner(path, option) for the file f.
LoadError(f) == <<"cannot load: ", f>>

\* The error of fr.Apply(ctx) for the file f.
ApplyError(f) == <<"cannot apply: ", f>>

\* The error of fr.Plan(ctx) for the file f.
PlanError(f) == <<"cannot plan: ", f>>

\* The error of r.hc.Save(ctx).
SaveError == <<"cannot save">>

\* fmt.Errorf("apply succeed, but failed to save history: %v", serr)
ApplySucceedSaveFailed(serr) ==
    <<"apply succeed, but failed to save history: ">> \o serr

\* One exit of the deferred function forgets the original error.
SaveAndApplyFailedDropsApply(serr, e) ==
    <<"failed to save history: ">> \o serr

\* fmt.Errorf("failed to save history: %v, failed to apply: %v", serr, err)
SaveAndApplyFailed(serr, e) ==
    <<"failed to save history: ">> \o serr \o <<", failed to apply: ">> \o e

(***************************************************************************)
(* The history controller (r.hc): the in-memory HistoryLog is the sequence *)
(* of the recorded filenames.                                              *)
(***************************************************************************)
HistoryLength(h) == Len(h)

AlreadyApplied(h, f) == \E i \in 1..Len(h) : h[i] = f

UnappliedMigrations(h) == SelectSeq(Files, LAMBDA f : ~AlreadyApplied(h, f))

AddRecord(h, f) == IF AlreadyApplied(h, f) THEN h ELSE Append(h, f)

\* The durable history after Save: the in-memory records, or what it was.
Save(h, d, saveOk) == IF saveOk THEN h ELSE d

\* The results the file runner of one migration file can give.
Outcomes == {"ok", "fail", "loaderr"}

(***************************************************************************)
(* HistoryRunner.planFile and HistoryRunner.applyFile: the error returned, *)
(* the HistoryLog left, and what happened (res): "already", "loaderr",     *)
(* "fail" or "ok".                                                         *)
(***************************************************************************)
planFile(h, f, outcome) ==
    IF AlreadyApplied(h, f)
    THEN [err |-> AlreadyAppliedError(f), hist |-> h, res |-> "already"]
    ELSE IF outcome = "loaderr"
    THEN [err |-> LoadError(f), hist |-> h, res |-> "loaderr"]
    ELSE IF outcome = "fail"
    THEN [err |-> PlanError(f), hist |-> h, res |-> "fail"]
    ELSE [err |-> Nil, hist |-> h, res |-> "ok"]

\* applyFile without the AlreadyApplied check.
applyFileUnchecked(h, f, outcome) ==
    IF outcome = "loaderr"
    THEN [err |-> LoadError(f), hist |-> h, res |-> "loaderr"]
    ELSE IF outcome = "fail"
    THEN [err |-> ApplyError(f), hist |-> h, res |-> "fail"]
    ELSE [err |-> Nil, hist |-> AddRecord(h, f), res |-> "ok"]

\* applyFile that records the file before looking at the error of fr.Apply.
applyFileRecordsFailure(h, f, outcome) ==
    IF AlreadyApplied(h, f)
    THEN [err |-> AlreadyAppliedError(f), hist |-> h, res |-> "already"]
    ELSE IF outcome = "loaderr"
    THEN [err |-> LoadError(f), hist |-> h, res |-> "loaderr"]
    ELSE IF outcome = "fail"
    THEN [err |-> ApplyError(f), hist |-> AddRecord(h, f), res |-> "fail"]
    ELSE [err |-> Nil, hist |-> AddRecord(h, f), res |-> "ok"]

\* applyFile that does not add the record after a successful apply.
applyFileNoRecord(h, f, outcome) ==
    IF AlreadyApplied(h, f)
    THEN [err |-> AlreadyAppliedError(f), hist |-> h, res |-> "already"]
    ELSE IF outcome = "loaderr"
    THEN [err |-> LoadError(f), hist |-> h, res |-> "loaderr"]
    ELSE IF outcome = "fail"
    THEN [err |-> ApplyError(f), hist |-> h, res |-> "fail"]
    ELSE [err |-> Nil, hist |-> h, res |-> "ok"]

applyFile(h, f, outcome) ==
    IF AlreadyApplied(h, f)
    THEN [err |-> AlreadyAppliedError(f), hist |-> h, res |-> "already"]
    ELSE IF outcome = "loaderr"
    THEN [err |-> LoadError(f), hist |-> h, res |-> "loaderr"]
    ELSE IF outcome = "fail"
    THEN [err |-> ApplyError(f), hist |-> h, res |-> "fail"]
    ELSE [err |-> Nil, hist |-> AddRecord(h, f), res |-> "ok"]

(***************************************************************************)
(* The deferred function of HistoryRunner.Apply: whether Save is invoked   *)
(* and the error Apply returns, from the length before the run, the        *)
(* HistoryLog after it, the run's own error e and the result of Save.      *)
(***************************************************************************)
\* The deferred function returning the run's own result when Save fails.
deferSaveSwallowsSaveError(before, h, e, saveOk) ==
    IF before = HistoryLength(h)
    THEN [saved |-> FALSE, err |-> e]
    ELSE [saved |-> TRUE, err |-> e]

\* The deferred function overwriting the original error.
deferSaveOverwrites(before, h, e, saveOk) ==
    IF before = HistoryLength(h)
    THEN [saved |-> FALSE, err |-> e]
    ELSE IF saveOk
    THEN [saved |-> TRUE, err |-> e]
    ELSE IF e = Nil
    THEN [saved |-> TRUE, err |-> ApplySucceedSaveFailed(SaveError)]
    ELSE [saved |-> TRUE, err |-> SaveAndApplyFailedDropsApply(SaveError, e)]

\* The deferred function saving on every exit.
deferSaveAlways(before, h, e, saveOk) ==
    IF saveOk
    THEN [saved |-> TRUE, err |-> e]
    ELSE IF e = Nil
    THEN [saved |-> TRUE, err |-> ApplySucceedSaveFailed(SaveError)]
    ELSE [saved |-> TRUE, err |-> SaveAndApplyFailed(SaveError, e)]

\* The deferred function saving only when the run returned no error.
deferSaveOnSuccessOnly(before, h, e, saveOk) ==
    IF before = HistoryLength(h) \/ e # Nil
    THEN [saved |-> FALSE, err |-> e]
    ELSE IF saveOk
    THEN [saved |-> TRUE, err |-> e]
    ELSE [saved |-> TRUE, err |-> ApplySucceedSaveFailed(SaveError)]

\* The deferred function returning the result of Save for the run's own.
deferSaveReturnsSaveResult(before, h, e, saveOk) ==
    IF before = HistoryLength(h)
    THEN [saved |-> FALSE, err |-> e]
    ELSE IF saveOk
    THEN [saved |-> TRUE, err |-> Nil]
    ELSE IF e = Nil
    THEN [saved |-> TRUE, err |-> ApplySucceedSaveFailed(SaveError)]
    ELSE [saved |-> TRUE, err |-> SaveAndApplyFailed(SaveError, e)]

deferSave(before, h, e, saveOk) ==
    IF before = HistoryLength(h)
    THEN [saved |-> FALSE, err |-> e]
    ELSE IF saveOk
    THEN [saved |-> TRUE, err |-> e]
    ELSE IF e = Nil
    THEN [saved |-> TRUE, err |-> ApplySucceedSaveFailed(SaveError)]
    ELSE [saved |-> TRUE, err |-> SaveAndApplyFailed(SaveError, e)]

(***************************************************************************)
(* The loop of applyDir and planDir: what is left to do after a file.      *)
(***************************************************************************)
\* The loop going on to the next file after a failure.
nextFilesContinues(q, e) == Tail(q)

nextFiles(q, e) == IF e # Nil THEN <<>> ELSE Tail(q)

(***************************************************************************)
(* Strings of the wildcard move: sequences of characters.  The characters  *)
(* the Go source writes \t \n \v \f \r are TAB LF VT FF CR here.           *)
(***************************************************************************)
TAB == "TAB"
LF == "LF"
VT == "VT"
FF == "FF"
CR == "CR"
SP == " "

\* const wildcardChar = "*"
wildcardChar == <<"*">>

\* The wildcard's pattern without the brackets in its character class.
matchWildcardRegexBracketsAllowed ==
    <<"(", "[", "^", TAB, LF, VT, FF, CR, SP, "]", "*", ")">>

\* const matchWildcardRegex = "([^\\]\\[\t\n\v\f\r ]*)"
matchWildcardRegex ==
    <<"(", "[", "^", "\\", "]", "\\", "[", TAB, LF, VT, FF, CR, SP, "]", "*", ")">>

\* strings.Count(s, sub) for a one-character sub.
RECURSIVE Count(_, _)
Count(s, sub) ==
    IF s = <<>> THEN 0
    ELSE (IF <<Head(s)>> = sub THEN 1 ELSE 0) + Count(Tail(s), sub)

\* strings.Join(elems, sep)
RECURSIVE Join(_, _)
Join(elems, sep) ==
    IF elems = <<>> THEN <<>>
    ELSE IF Len(elems) = 1 THEN elems[1]
    ELSE elems[1] \o sep \o Join(Tail(elems), sep)

\* Whether sub occurs in s at the 1-based position i.
HasAt(s, sub, i) ==
    /\ i + Len(sub) - 1 <= Len(s)
    /\ SubSeq(s, i, i + Len(sub) - 1) = sub

\* strings.ReplaceAll(s, old, new), for a non-empty old: the occurrences of
\* old are replaced from left to right, without overlap.
RECURSIVE ReplaceAll(_, _, _)
ReplaceAll(s, old, new) ==
    IF s = <<>> THEN <<>>
    ELSE IF HasAt(s, old, 1)
    THEN new \o ReplaceAll(SubSeq(s, Len(old) + 1, Len(s)), old, new)
    ELSE <<Head(s)>> \o ReplaceAll(Tail(s), old, new)

\* The characters regexp.QuoteMeta escapes: \.+*?()|[]{}^$
SpecialChars ==
    {"\\", ".", "+", "*", "?", "(", ")", "|", "[", "]", "{", "}", "^", "$"}

\* regexp.QuoteMeta(s)
RECURSIVE QuoteMeta(_)
QuoteMeta(s) ==
    IF s = <<>> THEN <<>>
    ELSE (IF Head(s) \in SpecialChars THEN <<"\\", Head(s)>> ELSE <<Head(s)>>)
         \o QuoteMeta(Tail(s))

(***************************************************************************)
(* regexp.Compile, for the patterns this program can make: a sequence of   *)
(* escaped characters, plain characters, dots and capturing groups of a    *)
(* starred negated character class.  A compiled pattern is a sequence of   *)
(* [kind, c, excl]: a literal c, any character but newline, or a capturing *)
(* greedy run of the characters outside excl.  Any other use of a special  *)
(* character is a syntax error.                                            *)
(***************************************************************************)
Lit(c) == [kind |-> "lit", c |-> c, excl |-> {}]

AnyChar == [kind |-> "any", c |-> "", excl |-> {LF}]

Group(excl) == [kind |-> "group", c |-> "", excl |-> excl]

\* The position of the "]" closing the character class whose items start
\* at i, or 0.
RECURSIVE classEnd(_, _)
classEnd(t, i) ==
    IF i > Len(t) THEN 0
    ELSE IF t[i] = "\\" THEN classEnd(t, i + 2)
    ELSE IF t[i] = "]" THEN i
    ELSE classEnd(t, i + 1)

\* The characters of the class items at i..j-1.
RECURSIVE classChars(_, _, _)
classChars(t, i, j) ==
    IF i >= j THEN {}
    ELSE IF t[i] = "\\" THEN {t[i + 1]} \cup classChars(t, i + 2, j)
    ELSE {t[i]} \cup classChars(t, i + 1, j)

\* Whether a capturing group of a starred negated class starts at i.
GroupAt(t, i) ==
    /\ HasAt(t, <<"(", "[", "^">>, i)
    /\ classEnd(t, i + 3) # 0
    /\ HasAt(t, <<"]", "*", ")">>, classEnd(t, i + 3))

RECURSIVE parse(_, _)
parse(t, i) ==
    IF i > Len(t) THEN [ok |-> TRUE, prog |-> <<>>]
    ELSE LET then(e, j) ==
                 LET rest == parse(t, j)
                 IN [ok |-> rest.ok, prog |-> <<e>> \o rest.prog]
         IN IF t[i] = "\\"
            THEN IF i = Len(t)
                 THEN [ok |-> FALSE, prog |-> <<>>]
                 ELSE then(Lit(t[i + 1]), i + 2)
            ELSE IF GroupAt(t, i)
            THEN then(Group(classChars(t, i + 3, classEnd(t, i + 3))),
                      classEnd(t, i + 3) + 3)
            ELSE IF t[i] = "."
            THEN then(AnyChar, i + 1)
            ELSE IF t[i] \in SpecialChars
            THEN [ok |-> FALSE, prog |-> <<>>]
            ELSE then(Lit(t[i]), i + 1)

Compile(t) == parse(t, 1)

(***************************************************************************)
(* Matching, as Go's regexp does it: the leftmost match, and among the     *)
(* matches at one place the one a backtracking search finds first, every   *)
(* group taking as many characters as it can.  Positions are offsets, from *)
(* 0; a match is [start, end, caps], caps the text of each group.          *)
(***************************************************************************)
\* The length of the longest run at offset p of characters outside excl.
RECURSIVE run(_, _, _)
run(text, p, excl) ==
    IF p < Len(text) /\ text[p + 1] \notin excl
    THEN 1 + run(text, p + 1, excl)
    ELSE 0

RECURSIVE matchHere(_, _, _, _)
RECURSIVE tryGroup(_, _, _, _, _)

\* The match of prog[i..] at offset p: <<[end, caps]>>, or <<>>.
matchHere(prog, i, text, p) ==
    IF i > Len(prog) THEN <<[end |-> p, caps |-> <<>>]>>
    ELSE IF prog[i].kind = "group"
    THEN tryGroup(prog, i, text, p, run(text, p, prog[i].excl))
    ELSE IF /\ p < Len(text)
            /\ \/ prog[i].kind = "lit" /\ text[p + 1] = prog[i].c
               \/ prog[i].kind = "any" /\ text[p + 1] \notin prog[i].excl
    THEN matchHere(prog, i + 1, text, p + 1)
    ELSE <<>>

\* The group prog[i] taking k characters at p, or fewer.
tryGroup(prog, i, text, p, k) ==
    LET r == matchHere(prog, i + 1, text, p + k)
    IN IF r # <<>>
       THEN <<[end |-> r[1].end,
               caps |-> <<SubSeq(text, p + 1, p + k)>> \o r[1].caps]>>
       ELSE IF k = 0 THEN <<>>
       ELSE tryGroup(prog, i, text, p, k - 1)

\* re.doExecute(..., pos, ...): the leftmost match starting at pos or later.
RECURSIVE doExecute(_, _, _)
doExecute(prog, text, pos) ==
    IF pos > Len(text) THEN <<>>
    ELSE LET r == matchHere(prog, 1, text, pos)
         IN IF r # <<>>
            THEN <<[start |-> pos, end |-> r[1].end, caps |-> r[1].caps]>>
            ELSE doExecute(prog, text, pos + 1)

\* re.allMatches: the successive matches, an empty match that touches the
\* match before it left out.
RECURSIVE allMatches(_, _, _, _)
allMatches(prog, text, pos, prevMatchEnd) ==
    IF pos > Len(text) THEN <<>>
    ELSE LET m == doExecute(prog, text, pos)
         IN IF m = <<>> THEN <<>>
            ELSE LET a == m[1]
                     accept == ~(a.end = pos /\ a.start = prevMatchEnd)
                     next == IF a.end = pos THEN pos + 1 ELSE a.end
                 IN (IF accept THEN <<a>> ELSE <<>>)
                    \o allMatches(prog, text, next, a.end)

\* The text of a match.
MatchText(text, a) == SubSeq(text, a.start + 1, a.end)

\* r.FindAllString(text, -1): the matches' texts; <<>> stands for nil too.
FindAllString(prog, text) ==
    LET ms == allMatches(prog, text, 0, -1)
    IN [i \in 1..Len(ms) |-> MatchText(text, ms[i])]

(***************************************************************************)
(* The replacement template of ReplaceAllString (Regexp.Expand): $name and *)
(* ${name} stand for a group, $$ for "$".                                  *)
(***************************************************************************)
Digits == <<"0", "1", "2", "3", "4", "5", "6", "7", "8", "9">>

IsDigit(c) == \E d \in 1..10 : Digits[d] = c

DigitValue(c) == (CHOOSE d \in 1..10 : Digits[d] = c) - 1

Letters == {"a", "b", "m", "n", "r", "_"}

IsNameChar(c) == IsDigit(c) \/ c \in Letters

\* The length of the longest run of name characters at the head of t.
RECURSIVE nameLen(_)
nameLen(t) ==
    IF t # <<>> /\ IsNameChar(Head(t)) THEN 1 + nameLen(Tail(t)) ELSE 0

\* The number a name denotes, or -1: digits only, no leading zero.
RECURSIVE number(_, _)
number(name, acc) ==
    IF name = <<>> THEN acc
    ELSE IF ~IsDigit(Head(name)) THEN -1
    ELSE number(Tail(name), acc * 10 + DigitValue(Head(name)))

nameNumber(name) ==
    IF name[1] = "0" /\ Len(name) > 1 THEN -1 ELSE number(name, 0)

\* The position of the first "}" of t, or 0.
RECURSIVE braceEnd(_, _)
braceEnd(t, i) ==
    IF i > Len(t) THEN 0 ELSE IF t[i] = "}" THEN i ELSE braceEnd(t, i + 1)

\* extract(template): the name after a "$", and the rest of the template.
extract(t) ==
    IF t = <<>> THEN [ok |-> FALSE, name |-> <<>>, rest |-> t]
    ELSE IF Head(t) = "{"
    THEN LET e == braceEnd(t, 2)
             name == SubSeq(t, 2, e - 1)
         IN IF e = 0 \/ name = <<>> \/ nameLen(name) # Len(name)
            THEN [ok |-> FALSE, name |-> <<>>, rest |-> t]
            ELSE [ok |-> TRUE, name |-> name, rest |-> SubSeq(t, e + 1, Len(t))]
    ELSE LET n == nameLen(t)
         IN IF n = 0
            THEN [ok |-> FALSE, name |-> <<>>, rest |-> t]
            ELSE [ok |-> TRUE, name |-> SubSeq(t, 1, n),
                  rest |-> SubSeq(t, n + 1, Len(t))]

\* The text of group num of the match a of text; group 0 is the match.
GroupText(text, a, num) ==
    IF num = 0 THEN MatchText(text, a)
    ELSE IF num >= 1 /\ num <= Len(a.caps) THEN a.caps[num]
    ELSE <<>>

\* re.expand(template, src, match)
RECURSIVE expand(_, _, _)
expand(template, text, a) ==
    IF template = <<>> THEN <<>>
    ELSE IF Head(template) # "$"
    THEN <<Head(template)>> \o expand(Tail(template), text, a)
    ELSE LET after == Tail(template)
             x == extract(after)
         IN IF after # <<>> /\ Head(after) = "$"
            THEN <<"$">> \o expand(Tail(after), text, a)
            ELSE IF ~x.ok
            THEN <<"$">> \o expand(after, text, a)
            ELSE GroupText(text, a, nameNumber(x.name)) \o expand(x.rest, text, a)

\* re.replaceAll: every match of src replaced by the expanded template, but
\* not an empty match right after another match.
RECURSIVE replaceAll(_, _, _, _, _)
replaceAll(prog, src, repl, searchPos, lastMatchEnd) ==
    IF searchPos > Len(src) THEN SubSeq(src, lastMatchEnd + 1, Len(src))
    ELSE LET m == doExecute(prog, src, searchPos)
         IN IF m = <<>> THEN SubSeq(src, lastMatchEnd + 1, Len(src))
            ELSE LET a == m[1]
                     width == IF searchPos < Len(src) THEN 1 ELSE 0
                     next == IF searchPos + width > a.end THEN searchPos + width
                             ELSE IF searchPos + 1 > a.end THEN searchPos + 1
                             ELSE a.end
                 IN SubSeq(src, lastMatchEnd + 1, a.start)
                    \o (IF a.end > lastMatchEnd \/ a.start = 0
                        THEN expand(repl, src, a)
                        ELSE <<>>)
                    \o replaceAll(prog, src, repl, next, a.end)

\* r.ReplaceAllString(src, repl)
ReplaceAllString(prog, src, repl) == replaceAll(prog, src, repl, 0, 0)

(***************************************************************************)
(* StateXMvAction: the expansion of a wildcard source into moves.          *)
(***************************************************************************)
nrOfWildcards(source) == Count(source, wildcardChar)

makeSourceMatchPattern(s) ==
    ReplaceAll(QuoteMeta(s), QuoteMeta(wildcardChar), matchWildcardRegex)

\* fmt.Errorf("could not make pattern out of %s (%s) due to %s", ...)
CompileError(source, regPattern) ==
    <<"could not make pattern out of ">> \o source \o <<" (">> \o regPattern
    \o <<") due to ", "syntax error">>

makeSrcRegex(source) ==
    LET regPattern == makeSourceMatchPattern(source)
        r == Compile(regPattern)
    IN IF ~r.ok
       THEN [prog |-> <<>>, err |-> CompileError(source, regPattern)]
       ELSE [prog |-> r.prog, err |-> Nil]

\* The text the source pattern is matched against.
joined(stateList) == Join(stateList, <<LF>>)

\* The matches getMatchingSourcesFromState finds, with their groups.
sourceMatches(source, stateList) ==
    LET r == makeSrcRegex(source)
    IN IF r.err # Nil THEN <<>>
       ELSE allMatches(r.prog, joined(stateList), 0, -1)

getMatchingSourcesFromState(source, stateList) ==
    LET r == makeSrcRegex(source)
    IN IF r.err # Nil
       THEN [isNil |-> TRUE, items |-> <<>>, err |-> r.err]
       ELSE [isNil |-> FALSE,
             items |-> FindAllString(r.prog, joined(stateList)),
             err |-> Nil]

getDestinationForStateSrc(source, destination, stateSource) ==
    LET r == makeSrcRegex(source)
    IN IF r.err # Nil
       THEN [destination |-> <<>>, err |-> r.err]
       ELSE [destination |-> ReplaceAllString(r.prog, stateSource, destination),
             err |-> Nil]

\* getStateMvActionsForStateList without the path for no wildcard.
getStateMvActionsForStateListAlwaysMatches(source, destination, stateList) ==
    LET m == getMatchingSourcesFromState(source, stateList)
        d(i) == getDestinationForStateSrc(source, destination, m.items[i])
    IN IF m.err # Nil
       THEN [isNil |-> TRUE, items |-> <<>>, err |-> m.err]
       ELSE [isNil |-> FALSE,
             items |-> [i \in 1..Len(m.items) |->
                          [source |-> m.items[i],
                           destination |-> d(i).destination]],
             err |-> Nil]

getStateMvActionsForStateList(source, destination, stateList) ==
    IF nrOfWildcards(source) = 0
    THEN [isNil |-> FALSE,
          items |-> <<[source |-> source, destination |-> destination]>>,
          err |-> Nil]
    ELSE LET m == getMatchingSourcesFromState(source, stateList)
             d(i) == getDestinationForStateSrc(source, destination, m.items[i])
         IN IF m.err # Nil
            THEN [isNil |-> TRUE, items |-> <<>>, err |-> m.err]
            ELSE IF \E i \in 1..Len(m.items) : d(i).err # Nil
            THEN [isNil |-> TRUE, items |-> <<>>,
                  err |-> d(CHOOSE i \in 1..Len(m.items) : d(i).err # Nil).err]
            ELSE [isNil |-> FALSE,
                  items |-> [i \in 1..Len(m.items) |->
                               [source |-> m.items[i],
                                destination |-> d(i).destination]],
                  err |-> Nil]

(***************************************************************************)
(* The terraform CLI as the wildcard move uses it.  A state snapshot is    *)
(* the sequence of the addresses it holds, in the order they are listed.   *)
(***************************************************************************)
\* The error of tf.StateList(ctx, state, nil).
ListError == <<"cannot list the state">>

\* The error of the move of one address to another.
MoveError(mv) ==
    <<"cannot move ">> \o mv.source \o <<" to ">> \o mv.destination

\* tf.StateList(ctx, state, nil): the addresses of the snapshot, or an error.
StateList(state, ok) ==
    IF ok
    THEN [isNil |-> FALSE, items |-> state, err |-> Nil]
    ELSE [isNil |-> TRUE, items |-> <<>>, err |-> ListError]

Has(state, address) == \E i \in 1..Len(state) : state[i] = address

\* The snapshot with the source address of mv renamed to its destination.
Renamed(state, mv) ==
    [i \in 1..Len(state) |->
        IF state[i] = mv.source THEN mv.destination ELSE state[i]]

\* StateMvAction.StateUpdate(ctx, tf, state): the new snapshot, or nil and an
\* error when terraform fails, the source does not exist or the destination
\* exists already.
StateMv(state, mv, ok) ==
    IF ~ok \/ ~Has(state, mv.source) \/ Has(state, mv.destination)
    THEN [isNil |-> TRUE, state |-> <<>>, err |-> MoveError(mv)]
    ELSE [isNil |-> FALSE, state |-> Renamed(state, mv), err |-> Nil]

(***************************************************************************)
(* StateXMvAction.generateMvActions and StateXMvAction.StateUpdate.        *)
(***************************************************************************)
generateMvActions(source, destination, state, listOk) ==
    LET l == StateList(state, listOk)
    IN IF l.err # Nil
       THEN [isNil |-> TRUE, items |-> <<>>, err |-> l.err]
       ELSE getStateMvActionsForStateList(source, destination, l.items)

\* What StateUpdate returns: a snapshot (or nil) and an error.
Return(isNil, state, e) == [isNil |-> isNil, state |-> state, err |-> e]

NoResult == Return(TRUE, <<>>, Nil)

Reverse(q) == [i \in 1..Len(q) |-> q[Len(q) + 1 - i]]

\* StateUpdate ranging over the moves from the last to the first.
afterGenerateReversed(g, state) ==
    IF g.err # Nil
    THEN [pc |-> "returned", actions |-> <<>>, result |-> Return(TRUE, <<>>, g.err)]
    ELSE IF g.items = <<>>
    THEN [pc |-> "returned", actions |-> <<>>, result |-> Return(FALSE, state, Nil)]
    ELSE [pc |-> "moves", actions |-> Reverse(g.items), result |-> NoResult]

\* StateUpdate after generateMvActions: the return of nil and the error, or
\* the loop over the moves, which returns the snapshot when there is none.
afterGenerate(g, state) ==
    IF g.err # Nil
    THEN [pc |-> "returned", actions |-> <<>>, result |-> Return(TRUE, <<>>, g.err)]
    ELSE IF g.items = <<>>
    THEN [pc |-> "returned", actions |-> <<>>, result |-> Return(FALSE, state, Nil)]
    ELSE [pc |-> "moves", actions |-> g.items, result |-> NoResult]

\* The loop handing every move the snapshot StateUpdate was given.
afterMoveKeepsSnapshot(q, state, r) ==
    IF r.err # Nil
    THEN [pc |-> "returned", actions |-> <<>>, state |-> r.state,
          result |-> Return(TRUE, <<>>, r.err)]
    ELSE IF Tail(q) = <<>>
    THEN [pc |-> "returned", actions |-> <<>>, state |-> state,
          result |-> Return(FALSE, state, Nil)]
    ELSE [pc |-> "moves", actions |-> Tail(q), state |-> state,
          result |-> NoResult]

\* The loop going on to the next move after a failed one, with the
\* snapshot it had.
afterMoveContinues(q, state, r) ==
    LET s == IF r.err # Nil THEN state ELSE r.state
    IN IF Tail(q) = <<>>
       THEN [pc |-> "returned", actions |-> <<>>, state |-> s,
             result |-> Return(FALSE, s, r.err)]
       ELSE [pc |-> "moves", actions |-> Tail(q), state |-> s,
             result |-> NoResult]

\* The loop making out the moves anew, from a new listing, after every move.
afterMoveRelists(q, state, r) ==
    IF r.err # Nil
    THEN [pc |-> "returned", actions |-> <<>>, state |-> r.state,
          result |-> Return(TRUE, <<>>, r.err)]
    ELSE IF Tail(q) = <<>>
    THEN [pc |-> "returned", actions |-> <<>>, state |-> r.state,
          result |-> Return(FALSE, r.state, Nil)]
    ELSE [pc |-> "call", actions |-> <<>>, state |-> r.state,
          result |-> NoResult]

\* One turn of the loop of StateUpdate: q the moves from this one on, state
\* the snapshot it was handed and r what the move returned.
afterMove(q, state, r) ==
    IF r.err # Nil
    THEN [pc |-> "returned", actions |-> <<>>, state |-> r.state,
          result |-> Return(TRUE, <<>>, r.err)]
    ELSE IF Tail(q) = <<>>
    THEN [pc |-> "returned", actions |-> <<>>, state |-> r.state,
          result |-> Return(FALSE, r.state, Nil)]
    ELSE [pc |-> "moves", actions |-> Tail(q), state |-> r.state,
          result |-> NoResult]

(***************************************************************************)
(* The inputs of the expansion: addresses as terraform lists them, source  *)
(* patterns and destination templates.                                     *)
(***************************************************************************)
\* The bound on the number of addresses of a listing.
MaxListLen == 3

Name(n) == <<n>>

Indexed(n, i) == <<n, "[", i, "]">>

Dot(s, t) == s \o <<".">> \o t

Addresses ==
    { Dot(Indexed("a", "0"), Name("b")),                   \* a[0].b
      Dot(Indexed("a", "1"), Name("b")),                   \* a[1].b
      Dot(Name("b"), Name("b")),                           \* b.b
      Dot(Name("a"), Name("b")),                           \* a.b
      Dot(Indexed("a", "0"), Dot(Name("a"), Name("b"))),   \* a[0].a.b
      Dot(Indexed("a", "0"), Dot(Indexed("a", "1"), Name("b"))),
                                                           \* a[0].a[1].b
      Indexed("a", "0"),                                   \* a[0]
      Name("b") }                                          \* b

Sources ==
    { Dot(Indexed("a", "0"), Name("b")),                   \* a[0].b
      Dot(Name("n"), Name("b")),                           \* n.b
      Name("b"),                                           \* b
      Dot(Indexed("a", "*"), Name("b")),                   \* a[*].b
      Dot(Indexed("b", "*"), Name("b")),                   \* b[*].b
      Dot(Name("*"), Name("b")),                           \* *.b
      Dot(Name("a"), Name("*")),                           \* a.*
      Indexed("a", "*"),                                   \* a[*]
      Name("*"),                                           \* *
      Dot(Indexed("a", "*"), Name("*")) }                  \* a[*].*

Destinations ==
    { <<"n", "[", "$", "1", "]", ".", "b">>,               \* n[$1].b
      <<"n", ".", "$", "1">>,                              \* n.$1
      <<"n", ".", "b">> }                                  \* n.b

\* The listings: up to MaxListLen different addresses, in any order.
RECURSIVE ListingsOf(_)
ListingsOf(n) ==
    IF n = 0 THEN {<<>>}
    ELSE LET shorter == ListingsOf(n - 1)
         IN shorter \cup
            {Append(l, a) : l \in {k \in shorter : Len(k) = n - 1},
                            a \in Addresses}

Distinct(l) == \A i, j \in 1..Len(l) : l[i] = l[j] => i = j

Listings == {l \in ListingsOf(MaxListLen) : Distinct(l)}

\* The bound on the number of addresses of a snapshot given to StateUpdate.
MaxStateLen == 2

\* The snapshots StateUpdate is called with.
States == {l \in ListingsOf(MaxStateLen) : Distinct(l)}

(***************************************************************************)
(* The state of the runner.                                                *)
(***************************************************************************)
VARIABLES
    history,    \* r.hc: the in-memory HistoryLog
    durable,    \* the history as last saved to the history store
    filename,   \* r.filename; "" in directory mode
    rpc,        \* "idle", "files" (in a file or in the loop), "defer", "done"
    op,         \* the operation running or last run: "none", "plan", "apply"
    queue,      \* the files this run has still to go through
    err,        \* the named result err of the run
    beforeLen,  \* beforeLen of Apply
    calls,      \* this run's planFile/applyFile calls: <<[file, res], ...>>
    saveLog,    \* the results of this run's Save invocations, in order
    startHist,  \* the HistoryLog at the start of this run
    startTodo,  \* the files this run set out to go through
    applied,    \* per file, how often fr.Apply has succeeded so far
    saveFailed, \* whether a Save has failed so far
    lastOk,     \* the file of the last finished run if that was a file-mode
                \* Apply returning nil, and "" otherwise
    prevOk,     \* lastOk as it was when this run began
    prevAllApplied, \* whether the run before this one, of the same runner,
                \* was a directory-mode Apply all of whose files applied
    source,     \* a.source of the StateXMvAction
    destination,\* a.destination
    stateList,  \* the address listing of the state
    xpc,        \* "none", "start", or "done" once the moves are made out
    response,   \* what getStateMvActionsForStateList returned
    matches,    \* the matches of the source pattern in the listing
    input,      \* the snapshot StateUpdate was called with
    state,      \* the variable state of StateUpdate
    actions,    \* the moves the loop of StateUpdate has still to range over
    listCalls,  \* the StateList calls so far: <<[state, moves, ok], ...>>
    moved,      \* the moves attempted so far, each with the snapshot it was
                \* handed and what it returned: <<[action, state, out, err], ...>>
    result      \* what StateUpdate returned

rvars == <<history, durable, filename, rpc, op, queue, err, beforeLen, calls,
           saveLog, startHist, startTodo, applied, saveFailed, lastOk, prevOk,
           prevAllApplied>>

xvars == <<source, destination, stateList, xpc, response, matches>>

uvars == <<input, state, actions, listCalls, moved, result>>

vars == <<rvars, xvars, uvars>>

NoResponse == [isNil |-> TRUE, items |-> <<>>, err |-> Nil]

\* No wildcard move is in hand.
XIdle ==
    /\ source = <<>>
    /\ destination = <<>>
    /\ stateList = <<>>
    /\ xpc = "none"
    /\ response = NoResponse
    /\ matches = <<>>

\* No StateUpdate is under way.
UIdle ==
    /\ input = <<>>
    /\ state = <<>>
    /\ actions = <<>>
    /\ listCalls = <<>>
    /\ moved = <<>>
    /\ result = NoResult

RInit ==
    /\ history = <<>>
    /\ durable = <<>>
    /\ filename \in {""} \cup FileSet
    /\ rpc = "idle"
    /\ op = "none"
    /\ queue = <<>>
    /\ err = Nil
    /\ beforeLen = 0
    /\ calls = <<>>
    /\ saveLog = <<>>
    /\ startHist = <<>>
    /\ startTodo = <<>>
    /\ applied = [f \in FileSet |-> 0]
    /\ saveFailed = FALSE
    /\ lastOk = ""
    /\ prevOk = ""
    /\ prevAllApplied = FALSE
    /\ XIdle
    /\ UIdle

\* NewHistoryRunner: a new runner, its history loaded from the history store.
NewHistoryRunner ==
    /\ rpc \in {"idle", "done"}
    /\ \E fn \in {""} \cup FileSet : filename' = fn
    /\ history' = durable
    /\ rpc' = "idle"
    /\ op' = "none"
    /\ queue' = <<>>
    /\ err' = Nil
    /\ beforeLen' = 0
    /\ calls' = <<>>
    /\ saveLog' = <<>>
    /\ startHist' = <<>>
    /\ startTodo' = <<>>
    /\ prevOk' = ""
    /\ prevAllApplied' = FALSE
    /\ UNCHANGED <<durable, applied, saveFailed, lastOk>>
    /\ UNCHANGED <<xvars, uvars>>

\* The run that has just returned was a directory-mode Apply in which every
\* unapplied file was applied.
AllApplied ==
    /\ rpc = "done"
    /\ op = "apply"
    /\ Len(filename) = 0
    /\ Len(calls) = Len(startTodo)
    /\ \A i \in 1..Len(calls) : calls[i].res = "ok"

\* applyDir ranging over all the migration files.
todoAllFiles(fn, h) == IF Len(fn) # 0 THEN <<fn>> ELSE Files

\* The files a run goes through: the one file, or the unapplied ones.
todo(fn, h) == IF Len(fn) # 0 THEN <<fn>> ELSE UnappliedMigrations(h)

\* Plan up to the first planFile: the mode, and planDir's unapplied list.
PlanBegin ==
    /\ rpc \in {"idle", "done"}
    /\ op' = "plan"
    /\ queue' = todo(filename, history)
    /\ startTodo' = todo(filename, history)
    /\ startHist' = history
    /\ calls' = <<>>
    /\ saveLog' = <<>>
    /\ err' = Nil
    /\ prevOk' = lastOk
    /\ prevAllApplied' = AllApplied
    /\ lastOk' = ""
    /\ rpc' = IF todo(filename, history) = <<>> THEN "done" ELSE "files"
    /\ UNCHANGED <<history, durable, filename, beforeLen, applied, saveFailed>>
    /\ UNCHANGED <<xvars, uvars>>

\* One planFile, and the return of Plan when it was the last.
PlanFileStep ==
    /\ rpc = "files"
    /\ op = "plan"
    /\ \E outcome \in Outcomes :
         LET f == Head(queue)
             r == planFile(history, f, outcome)
             q == nextFiles(queue, r.err)
         IN /\ history' = r.hist
            /\ calls' = Append(calls, [file |-> f, res |-> r.res])
            /\ err' = r.err
            /\ queue' = q
            /\ rpc' = IF q = <<>> THEN "done" ELSE "files"
    /\ UNCHANGED <<durable, filename, op, beforeLen, saveLog, startHist,
                   startTodo, applied, saveFailed, lastOk, prevOk,
                   prevAllApplied>>
    /\ UNCHANGED <<xvars, uvars>>

\* Apply up to the first applyFile: beforeLen, the mode, applyDir's list.
ApplyBegin ==
    /\ rpc \in {"idle", "done"}
    /\ op' = "apply"
    /\ beforeLen' = HistoryLength(history)
    /\ queue' = todo(filename, history)
    /\ startTodo' = todo(filename, history)
    /\ startHist' = history
    /\ calls' = <<>>
    /\ saveLog' = <<>>
    /\ err' = Nil
    /\ prevOk' = lastOk
    /\ prevAllApplied' = AllApplied
    /\ lastOk' = ""
    /\ rpc' = IF todo(filename, history) = <<>> THEN "defer" ELSE "files"
    /\ UNCHANGED <<history, durable, filename, applied, saveFailed>>
    /\ UNCHANGED <<xvars, uvars>>

\* One applyFile, in file mode or in the loop of applyDir.
ApplyFileStep ==
    /\ rpc = "files"
    /\ op = "apply"
    /\ \E outcome \in Outcomes :
         LET f == Head(queue)
             r == applyFile(history, f, outcome)
             q == nextFiles(queue, r.err)
         IN /\ r.res = "ok" => applied[f] < MaxApplied
            /\ history' = r.hist
            /\ calls' = Append(calls, [file |-> f, res |-> r.res])
            /\ applied' = IF r.res = "ok"
                          THEN [applied EXCEPT ![f] = @ + 1]
                          ELSE applied
            /\ err' = r.err
            /\ queue' = q
            /\ rpc' = IF q = <<>> THEN "defer" ELSE "files"
    /\ UNCHANGED <<durable, filename, op, beforeLen, saveLog, startHist,
                   startTodo, saveFailed, lastOk, prevOk, prevAllApplied>>
    /\ UNCHANGED <<xvars, uvars>>

\* The deferred function of Apply, and the return of Apply.
ApplyDefer ==
    /\ rpc = "defer"
    /\ op = "apply"
    /\ \E saveOk \in BOOLEAN :
         LET d == deferSave(beforeLen, history, err, saveOk)
         IN /\ err' = d.err
            /\ saveLog' = IF d.saved THEN Append(saveLog, saveOk) ELSE saveLog
            /\ durable' = IF d.saved THEN Save(history, durable, saveOk) ELSE durable
            /\ saveFailed' = (saveFailed \/ (d.saved /\ ~saveOk))
            /\ lastOk' = IF d.err = Nil THEN filename ELSE ""
    /\ rpc' = "done"
    /\ UNCHANGED <<history, filename, op, queue, beforeLen, calls, startHist,
                   startTodo, applied, prevOk, prevAllApplied>>
    /\ UNCHANGED <<xvars, uvars>>

RNext ==
    \/ NewHistoryRunner
    \/ PlanBegin
    \/ PlanFileStep
    \/ ApplyBegin
    \/ ApplyFileStep
    \/ ApplyDefer

Spec == RInit /\ [][RNext]_vars

(***************************************************************************)
(* The wildcard move on its own: a source, a destination and a listing,    *)
(* and the moves getStateMvActionsForStateList makes out of them.          *)
(***************************************************************************)
\* No runner is at work.
RIdle ==
    /\ history = <<>>
    /\ durable = <<>>
    /\ filename = ""
    /\ rpc = "idle"
    /\ op = "none"
    /\ queue = <<>>
    /\ err = Nil
    /\ beforeLen = 0
    /\ calls = <<>>
    /\ saveLog = <<>>
    /\ startHist = <<>>
    /\ startTodo = <<>>
    /\ applied = [f \in FileSet |-> 0]
    /\ saveFailed = FALSE
    /\ lastOk = ""
    /\ prevOk = ""
    /\ prevAllApplied = FALSE

XInit ==
    /\ source \in Sources
    /\ destination \in Destinations
    /\ stateList \in Listings
    /\ xpc = "start"
    /\ response = NoResponse
    /\ matches = <<>>
    /\ RIdle
    /\ UIdle

\* getStateMvActionsForStateList(stateList)
Expand ==
    /\ xpc = "start"
    /\ response' = getStateMvActionsForStateList(source, destination, stateList)
    /\ matches' = IF nrOfWildcards(source) = 0 THEN <<>>
                  ELSE sourceMatches(source, stateList)
    /\ xpc' = "done"
    /\ UNCHANGED <<source, destination, stateList>>
    /\ UNCHANGED <<rvars, uvars>>

XNext == Expand

SpecX == XInit /\ [][XNext]_vars

(***************************************************************************)
(* StateUpdate of a wildcard move on a snapshot, a step at a time.         *)
(***************************************************************************)
UInit ==
    /\ source \in Sources
    /\ destination \in Destinations
    /\ input \in States
    /\ state = input
    /\ stateList = <<>>
    /\ xpc = "call"
    /\ response = NoResponse
    /\ matches = <<>>
    /\ actions = <<>>
    /\ listCalls = <<>>
    /\ moved = <<>>
    /\ result = NoResult
    /\ RIdle

\* StateUpdate up to its loop: generateMvActions with its StateList call,
\* and the return when it failed or made out no move.
StateUpdateBegin ==
    /\ xpc = "call"
    /\ \E listOk \in BOOLEAN :
         LET l == StateList(state, listOk)
             g == generateMvActions(source, destination, state, listOk)
             n == afterGenerate(g, state)
         IN /\ listCalls' = Append(listCalls, [state |-> state,
                                               moves |-> Len(moved),
                                               ok |-> listOk])
            /\ stateList' = l.items
            /\ response' = g
            /\ matches' = IF nrOfWildcards(source) = 0 \/ l.err # Nil THEN <<>>
                          ELSE sourceMatches(source, l.items)
            /\ actions' = n.actions
            /\ result' = n.result
            /\ xpc' = n.pc
    /\ UNCHANGED <<source, destination, input, state, moved>>
    /\ UNCHANGED rvars

\* One turn of the loop of StateUpdate: the move of one action, and the
\* return of StateUpdate when it failed or was the last.
StateUpdateMove ==
    /\ xpc = "moves"
    /\ \E ok \in BOOLEAN :
         LET action == Head(actions)
             r == StateMv(state, action, ok)
             n == afterMove(actions, state, r)
         IN /\ moved' = Append(moved, [action |-> action, state |-> state,
                                       out |-> r.state, err |-> r.err])
            /\ state' = n.state
            /\ actions' = n.actions
            /\ result' = n.result
            /\ xpc' = n.pc
    /\ UNCHANGED <<source, destination, stateList, response, matches, input,
                   listCalls>>
    /\ UNCHANGED rvars

UNext ==
    \/ StateUpdateBegin
    \/ StateUpdateMove

SpecU == UInit /\ [][UNext]_vars

(***************************************************************************)
(* Properties of the runner.                                               *)
(***************************************************************************)
\* The error a failing planFile/applyFile call of this run returned.
CallError(c) ==
    IF c.res = "already" THEN AlreadyAppliedError(c.file)
    ELSE IF c.res = "loaderr" THEN LoadError(c.file)
    ELSE IF op = "plan" THEN PlanError(c.file)
    ELSE ApplyError(c.file)

\* Whether the last call of this run failed, and so ended its loop.
LastCallFailed == calls # <<>> /\ calls[Len(calls)].res # "ok"

DirApplyDone == rpc = "done" /\ op = "apply" /\ Len(filename) = 0

C2_AlreadyAppliedRefused ==
    (/\ rpc = "done"
     /\ Len(filename) # 0
     /\ \/ AlreadyApplied(startHist, filename)
        \/ (op = "apply" /\ prevOk = filename))
    => /\ err = AlreadyAppliedError(filename)
       /\ calls = <<[file |-> filename, res |-> "already"]>>
       /\ history = startHist
       /\ Len(history) = Len(startHist)
       /\ saveLog = <<>>

\* The second of two file-mode Apply runs of one filename, the first of
\* which returned nil, has returned.
C2_Witness ==
    /\ rpc = "done"
    /\ op = "apply"
    /\ Len(filename) # 0
    /\ prevOk = filename
    /\ err = AlreadyAppliedError(filename)

\* C3: a directory-mode Apply attempts the unapplied files in list order and
\* stops at the first failing file: the files before it are recorded, it and
\* the files after it are not, no file after it is attempted, and unless a
\* Save failed the error returned is the failing file's error.
C3_DirFailFast ==
    (op = "apply" /\ Len(filename) = 0)
    => /\ Len(calls) <= Len(startTodo)
       /\ \A i \in 1..Len(calls) :
            /\ calls[i].file = startTodo[i]
            /\ calls[i].res # "ok" => i = Len(calls)
       /\ LET n == IF LastCallFailed THEN Len(calls) - 1 ELSE Len(calls)
          IN /\ history = startHist \o SubSeq(startTodo, 1, n)
             /\ \A i \in 1..Len(startTodo) :
                  AlreadyApplied(history, startTodo[i]) <=> i <= n
       /\ (rpc = "done" /\ LastCallFailed /\ saveLog # <<FALSE>>)
          => err = CallError(calls[Len(calls)])

\* Of three unapplied files the first was applied and recorded, the second
\* failed, the history was saved and the run has returned.
C3_Witness ==
    /\ DirApplyDone
    /\ Len(startTodo) = 3
    /\ Len(calls) = 2
    /\ calls[2].res = "fail"
    /\ saveLog = <<TRUE>>
    /\ err = ApplyError(startTodo[2])

\* C4: a Plan run adds no record to the HistoryLog and invokes no Save, and
\* an Apply run with nothing to apply returns nil without invoking Save.
C4_NoSaveWithoutApply ==
    /\ op = "plan" => (history = startHist /\ saveLog = <<>>)
    /\ (rpc = "done" /\ op = "apply" /\ startTodo = <<>>)
       => (err = Nil /\ saveLog = <<>> /\ history = startHist)

\* A directory-mode Apply that found every file applied has returned.
C4_Witness ==
    /\ DirApplyDone
    /\ startTodo = <<>>
    /\ Len(history) = NumFiles
    /\ saveLog = <<>>

\* C5: when a file of an Apply run failed and the Save of the deferred
\* function failed too, the returned error contains both errors.
C5_CompositeError ==
    (rpc = "done" /\ op = "apply" /\ LastCallFailed /\ saveLog = <<FALSE>>)
    => /\ Contains(err, CallError(calls[Len(calls)]))
       /\ Contains(err, SaveError)

\* A run whose second file failed and whose Save failed has returned.
C5_Witness ==
    /\ DirApplyDone
    /\ Len(calls) = 2
    /\ calls[2].res = "fail"
    /\ saveLog = <<FALSE>>

\* C6: when every file of an Apply run applied and the Save failed, Apply
\* returns an error, which tells of the failed Save.
C6_SaveFailureReported ==
    (rpc = "done" /\ op = "apply" /\ calls # <<>> /\ ~LastCallFailed
     /\ saveLog = <<FALSE>>)
    => (err # Nil /\ Contains(err, SaveError))

\* A run that applied all its files and whose Save failed has returned.
C6_Witness ==
    /\ rpc = "done"
    /\ op = "apply"
    /\ Len(calls) = Len(startTodo)
    /\ calls # <<>>
    /\ \A i \in 1..Len(calls) : calls[i].res = "ok"
    /\ saveLog = <<FALSE>>

(***************************************************************************)
(* Properties of the expansion.                                            *)
(***************************************************************************)
Chars(s) == {s[i] : i \in 1..Len(s)}

\* The texts the wildcards of the source captured, over all the matches.
Captures == {matches[i].caps[j] : i \in 1..Len(matches), j \in 1..nrOfWildcards(source)}

Whitespace == {TAB, LF, VT, FF, CR, SP}

\* The offset at which entry k of the listing starts in the joined text.
RECURSIVE entryStart(_, _)
entryStart(l, k) == IF k = 1 THEN 0 ELSE entryStart(l, k - 1) + Len(l[k - 1]) + 1

\* The matches that lie within entry k of the listing.
MatchesIn(k) ==
    {i \in 1..Len(matches) :
        /\ entryStart(stateList, k) <= matches[i].start
        /\ matches[i].end <= entryStart(stateList, k) + Len(stateList[k])}

WildcardDone == xpc = "done" /\ Count(source, <<"*">>) > 0

\* module.app[*].aws_instance.foo and module.app[0].sub.aws_instance.foo,
\* in the names of this model.
ExampleSource == Dot(Indexed("a", "*"), Name("b"))

ExampleNoMatch == Dot(Indexed("a", "0"), Dot(Name("a"), Name("b")))

\* C7: in every match of a source with a wildcard, the text a wildcard
\* captured contains no "." (a wildcard matches one path segment).
C7_NoDotInCapture ==
    WildcardDone => \A c \in Captures : "." \notin Chars(c)

\* C8: the text a wildcard captured contains no "[", no "]" and no
\* whitespace, so that every match lies within one entry of the listing;
\* and the source a[*].b gives no move for the entry a[0].a.b.
C8_NoBracketOrWhitespaceInCapture ==
    WildcardDone
    => /\ \A c \in Captures : Chars(c) \cap ({"[", "]"} \cup Whitespace) = {}
       /\ Len(response.items) = Len(matches)
       /\ \A i \in 1..Len(matches) :
            /\ response.items[i].source = MatchText(joined(stateList), matches[i])
            /\ LF \notin Chars(response.items[i].source)
            /\ stateList # <<>> => \E k \in 1..Len(stateList) : i \in MatchesIn(k)
       /\ source = ExampleSource
          => \A k \in 1..Len(stateList) :
               stateList[k] = ExampleNoMatch => MatchesIn(k) = {}

\* The source a[*].b has been matched against a listing that holds a[0].b
\* and a[0].a.b, and the one move made is that of a[0].b.
C8_Witness ==
    /\ xpc = "done"
    /\ source = ExampleSource
    /\ Len(stateList) = 2
    /\ stateList[1] = ExampleNoMatch
    /\ Len(response.items) = 1
    /\ response.items[1].source = stateList[2]
    /\ matches[1].caps = <<<<"0">>>>

\* C9: for a source without a wildcard the expansion returns the one move
\* from the source to the destination, both unchanged, and no error,
\* whatever the listing holds.
C9_NoWildcardOneMove ==
    (xpc = "done" /\ Count(source, <<"*">>) = 0)
    => /\ ~response.isNil
       /\ response.items = <<[source |-> source, destination |-> destination]>>
       /\ response.err = Nil

\* A source without a wildcard that the listing does not hold has been
\* expanded into its one move.
C9_Witness ==
    /\ xpc = "done"
    /\ Count(source, <<"*">>) = 0
    /\ Len(stateList) = MaxListLen
    /\ \A k \in 1..Len(stateList) : stateList[k] # source
    /\ response.items = <<[source |-> source, destination |-> destination]>>

\* The characters a wildcard may not stand for: it is one path segment.
SegmentBreak == {".", "[", "]"} \cup Whitespace

\* The place of the wildcard in a source that has exactly one.
WildcardAt == CHOOSE i \in 1..Len(source) : source[i] = "*"

\* The segment entry e has where the source has its one wildcard, as
\* <<segment>>, or <<>> when e does not match the source.
CapturedSegment(e) ==
    LET pre == SubSeq(source, 1, WildcardAt - 1)
        post == SubSeq(source, WildcardAt + 1, Len(source))
        mid == SubSeq(e, Len(pre) + 1, Len(e) - Len(post))
    IN IF /\ Len(e) >= Len(pre) + Len(post)
          /\ SubSeq(e, 1, Len(pre)) = pre
          /\ SubSeq(e, Len(e) - Len(post) + 1, Len(e)) = post
          /\ Chars(mid) \cap SegmentBreak = {}
       THEN <<mid>>
       ELSE <<>>

\* The destination template with the segment put in for its placeholders.
Substituted(e) ==
    expand(destination, e, [start |-> 0, end |-> Len(e), caps |-> CapturedSegment(e)])

\* The moves of the matching entries of a listing, in the listing's order.
RECURSIVE MovesOfMatchingEntries(_)
MovesOfMatchingEntries(l) ==
    IF l = <<>> THEN <<>>
    ELSE (IF CapturedSegment(Head(l)) # <<>>
          THEN <<[source |-> Head(l), destination |-> Substituted(Head(l))]>>
          ELSE <<>>)
         \o MovesOfMatchingEntries(Tail(l))

\* C10: for a source with exactly one wildcard the expansion returns one
\* move per entry of the listing that matches the source, its destination
\* the template with the entry's captured segment put in, no move for any
\* other entry, and for no matching entry an empty result that is not nil,
\* without an error.
C10_OneMovePerMatchingEntry ==
    (xpc = "done" /\ Count(source, <<"*">>) = 1)
    => /\ ~response.isNil
       /\ response.err = Nil
       /\ response.items = MovesOfMatchingEntries(stateList)

(***************************************************************************)
(* Properties of StateUpdate.                                              *)
(***************************************************************************)
\* The moves attempted so far, in the order of the attempts.
Attempted == [i \in 1..Len(moved) |-> moved[i].action]

IsPrefix(p, q) == Len(p) <= Len(q) /\ SubSeq(q, 1, Len(p)) = p

\* StateUpdate has returned a snapshot and no error.
UpdateSucceeded == xpc = "returned" /\ result.err = Nil

\* C11: the moves of the expansion are in the order of their matches in
\* the listing, from the first to the last (move i is that of match i, and
\* match i lies before match j for i < j), and StateUpdate attempts the
\* moves in exactly that order: at any time the moves attempted are the
\* first ones of the expansion, and all of them when it succeeded.
C11_MovesInListingOrder ==
    (xpc # "call" /\ response.err = Nil /\ listCalls[1].ok)
    => /\ nrOfWildcards(source) > 0
          => /\ Len(response.items) = Len(matches)
             /\ \A i \in 1..Len(matches) :
                  response.items[i].source
                      = MatchText(joined(stateList), matches[i])
             /\ \A i, j \in 1..Len(matches) :
                  i < j => /\ matches[i].start < matches[j].start
                           /\ matches[i].end <= matches[j].start
       /\ IsPrefix(Attempted, response.items)
       /\ UpdateSucceeded => Attempted = response.items

\* StateUpdate of a source with a wildcard has moved the first and then the
\* second address of a snapshot of two, and returned.
C11_Witness ==
    /\ UpdateSucceeded
    /\ nrOfWildcards(source) > 0
    /\ Len(input) = 2
    /\ Len(moved) = 2
    /\ moved[1].action.source = input[1]
    /\ moved[2].action.source = input[2]
    /\ matches[1].end <= matches[2].start

\* The moves applied to a snapshot one after the other.
RECURSIVE FoldMoves(_, _)
FoldMoves(items, s) ==
    IF items = <<>> THEN s
    ELSE FoldMoves(Tail(items), Renamed(s, Head(items)))

\* C12: when every move succeeds, move 1 is handed the snapshot StateUpdate
\* was called with and move i the snapshot move i-1 returned, and StateUpdate
\* returns the snapshot of the last move, which is the input with all the
\* moves applied in order; without a move it returns the input snapshot.
C12_SnapshotThreaded ==
    UpdateSucceeded
    => /\ ~result.isNil
       /\ Len(moved) = Len(response.items)
       /\ \A i \in 1..Len(moved) :
            moved[i].state = IF i = 1 THEN input ELSE moved[i - 1].out
       /\ result.state = IF moved = <<>> THEN input ELSE moved[Len(moved)].out
       /\ result.state = FoldMoves(response.items, input)

\* StateUpdate has returned the snapshot two successful moves left, which
\* is neither the input nor the snapshot after the first move.
C12_Witness ==
    /\ UpdateSucceeded
    /\ Len(moved) = 2
    /\ result.state # input
    /\ result.state # moved[1].out
    /\ result.state = moved[2].out

\* C13: a move that failed is the last one attempted, and StateUpdate has
\* returned its error and nil for the snapshot; when the StateList call
\* failed no move is attempted and StateUpdate has returned that error and
\* nil.
C13_FailFast ==
    /\ \A i \in 1..Len(moved) :
         moved[i].err # Nil
         => /\ i = Len(moved)
            /\ xpc = "returned"
            /\ result = Return(TRUE, <<>>, moved[i].err)
    /\ \A k \in 1..Len(listCalls) :
         ~listCalls[k].ok
         => /\ moved = <<>>
            /\ xpc = "returned"
            /\ result = Return(TRUE, <<>>, ListError)

\* The first of three moves succeeded, the second failed, and StateUpdate
\* returned without attempting the third.
C13_Witness ==
    /\ xpc = "returned"
    /\ Len(response.items) = 3
    /\ Len(moved) = 2
    /\ moved[1].err = Nil
    /\ moved[2].err # Nil
    /\ result.isNil
    /\ result.err = MoveError(response.items[2])

\* C14: StateUpdate calls StateList once, on the snapshot it was called
\* with and before any move, however many moves there are: there is never a
\* second call, and the listing the moves were made out of is that of the
\* input snapshot.
C14_OneListingCall ==
    /\ Len(listCalls) <= 1
    /\ xpc # "call" => Len(listCalls) = 1
    /\ moved # <<>> => Len(listCalls) = 1
    /\ \A k \in 1..Len(listCalls) :
         /\ listCalls[k].state = input
         /\ listCalls[k].moves = 0
         /\ listCalls[k].ok => stateList = input

\* StateUpdate has returned after two moves and one StateList call, the
\* snapshot no longer being the one that was listed.
C14_Witness ==
    /\ xpc = "returned"
    /\ Len(moved) >= 2
    /\ moved[1].err = Nil
    /\ state # input
    /\ Len(listCalls) = 1
    /\ listCalls[1].state = input

(***************************************************************************)
(* Properties of the runner: the records and the Save of an Apply run.     *)
(***************************************************************************)
ApplyDone == rpc = "done" /\ op = "apply"

\* The files this run has applied, in the order of their applies.
AppliedInRun ==
    LET ok == SelectSeq(calls, LAMBDA c : c.res = "ok")
    IN [i \in 1..Len(ok) |-> ok[i].file]

Records(h) == {h[i] : i \in 1..Len(h)}

\* C15: an Apply run invokes Save at most once, not before its last file
\* attempt (Save has been invoked only when Apply has returned, and nothing
\* is left to attempt) and, when it has returned, exactly if the HistoryLog
\* has another number of records than at the start of the run, which is
\* exactly if the run applied a file.
C15_SaveOnceIffChanged ==
    op = "apply"
    => /\ Len(saveLog) <= 1
       /\ saveLog # <<>> => (rpc = "done" /\ queue = <<>>)
       /\ rpc = "done"
          => /\ saveLog # <<>> <=> HistoryLength(history) # HistoryLength(startHist)
             /\ saveLog # <<>> <=> AppliedInRun # <<>>

\* A directory-mode Apply applied a file, failed on the next, invoked Save,
\* which failed, and has returned.
C15_Witness ==
    /\ DirApplyDone
    /\ Len(calls) = 2
    /\ calls[1].res = "ok"
    /\ calls[2].res # "ok"
    /\ saveLog = <<FALSE>>
    /\ HistoryLength(history) = HistoryLength(startHist) + 1

\* C16: at every point of an Apply run the records added to the HistoryLog
\* since its start are those of the files the run has applied, in the order
\* of their applies: the record of a file is there before the next file is
\* attempted, and a file that failed has no record.
C16_RecordedIffApplied ==
    op = "apply"
    => /\ history = startHist \o AppliedInRun
       /\ \A i \in 1..Len(calls) :
            calls[i].res \in {"fail", "loaderr"}
            => ~AlreadyApplied(history, calls[i].file)

\* In the middle of a directory-mode Apply: the first file is applied and
\* recorded and the second is still to be attempted.
C16_Witness ==
    /\ op = "apply"
    /\ rpc = "files"
    /\ Len(calls) = 1
    /\ calls[1].res = "ok"
    /\ queue # <<>>
    /\ history = Append(startHist, calls[1].file)
    /\ ~AlreadyApplied(history, Head(queue))

\* C17: when an Apply run has changed the HistoryLog and its Save succeeded,
\* Apply returns the run's own result: nil when no file failed, and else
\* the error of the failing file, as that file's step returned it.
C17_OwnResultAfterSave ==
    (ApplyDone /\ saveLog = <<TRUE>>)
    => /\ HistoryLength(history) # HistoryLength(startHist)
       /\ err = IF LastCallFailed THEN CallError(calls[Len(calls)]) ELSE Nil

\* A file-mode Apply applied its file, saved the history and returned nil.
C17_Witness ==
    /\ ApplyDone
    /\ Len(filename) # 0
    /\ saveLog = <<TRUE>>
    /\ calls = <<[file |-> filename, res |-> "ok"]>>
    /\ err = Nil

\* C18 as stated: whenever an Apply of a runner has returned nil, the
\* durable history holds every record of the runner's HistoryLog.
C18_NilReturnMeansSaved ==
    (ApplyDone /\ err = Nil) => Records(history) \subseteq Records(durable)

\* C18, amended: whenever an Apply has returned nil, the durable history
\* holds every record the run added, and it holds every record of the
\* HistoryLog if the run invoked Save or the HistoryLog held no unsaved
\* record when the run began.
C18_NilReturnMeansRunSaved ==
    (ApplyDone /\ err = Nil)
    => /\ Records(AppliedInRun) \subseteq Records(durable)
       /\ (saveLog # <<>> \/ Records(startHist) \subseteq Records(durable))
          => Records(history) \subseteq Records(durable)

\* A runner whose Save had failed has applied the files that were left,
\* saved the whole HistoryLog and returned nil.
C18_Witness ==
    /\ DirApplyDone
    /\ err = Nil
    /\ saveFailed
    /\ saveLog = <<TRUE>>
    /\ startHist # <<>>
    /\ \A f \in FileSet : applied[f] = 1
    /\ Records(history) = FileSet
    /\ durable = history

\* C19: after a directory-mode Apply in which every unapplied file was
\* applied no file is unapplied, and the Apply of the same runner that
\* follows it attempts no file, adds no record, invokes no Save and returns
\* nil.
C19_DirApplyIdempotent ==
    /\ AllApplied => UnappliedMigrations(history) = <<>>
    /\ (op = "apply" /\ prevAllApplied)
       => /\ Len(filename) = 0
          /\ startTodo = <<>>
          /\ calls = <<>>
          /\ history = startHist
          /\ saveLog = <<>>
          /\ rpc \in {"defer", "done"}
          /\ rpc = "done" => err = Nil

\* The Apply after a directory-mode Apply that applied all three files,
\* and whose Save failed, has returned nil.
C19_Witness ==
    /\ DirApplyDone
    /\ prevAllApplied
    /\ saveFailed
    /\ durable = <<>>
    /\ Len(startHist) = NumFiles
    /\ err = Nil

(***************************************************************************)
(* Properties of the expansion: the sources of the moves.                  *)
(***************************************************************************)
\* C20: for a source with a wildcard, the source of every move of the
\* expansion is an address of the listing, whole, and no entry of the
\* listing holds more than one match.
C20_MoveSourcesAreEntries ==
    WildcardDone
    => /\ \A i \in 1..Len(response.items) :
            \E k \in 1..Len(stateList) : response.items[i].source = stateList[k]
       /\ \A k \in 1..Len(stateList) : Cardinality(MatchesIn(k)) <= 1

====
